---- MODULE Spec2Model ----
(***************************************************************************)
(* The agent-side IPC wrapper of packages/core-rust/python/agent_wrapper.py *)
(* as a state machine: the run loop (read, decode, dispatch, reply) of      *)
(* AgentWrapper.run and the heartbeat task of AgentWrapper.heartbeat_loop,  *)
(* scheduled by one asyncio event loop.  The heartbeat task runs only       *)
(* while the run loop is suspended at an await that really suspends: the    *)
(* executor read of stdin, or a coroutine capability of the agent.          *)
(***************************************************************************)
EXTENDS Integers, Sequences, FiniteSets, TLC

VARIABLES
    is_running,   \* AgentWrapper.is_running
    agent,        \* AgentWrapper.agent: the attributes the behavior object has
    agent_module, \* the module initialize() loaded, and the factories it called
    calls,        \* the invocations made on the behavior object, with outcome
    mpc,          \* position of the run() coroutine
    hpc,          \* position of the heartbeat_loop() task
    stdin,        \* the reads of standard input so far: the line, or the failure
    message,      \* the IPCMessage being handled
    stage,        \* the capability the handler is waiting in
    response,     \* the IPCMessage handle_message returned
    out,          \* the lines written to standard output
    cause,        \* for each line of out: which stdin line was current, and where run() was
    completed,    \* indices of stdin lines whose handling and send have finished
    beats         \* number of heartbeats sent (also the clock of their ids)

vars == <<is_running, agent, agent_module, calls, mpc, hpc, stdin, message, stage, response,
          out, cause, completed, beats>>

-----------------------------------------------------------------------------
(* Bounds of the model *)

MaxLines == 2
MaxBeats == 1

-----------------------------------------------------------------------------
(* Values *)

\* Python None / JSON null
None == "None"

\* a Python object json.dumps cannot encode (a set, a datetime, an open file);
\* the values of the model hold one only under the key "handle"
Unencodable == "<object>"

\* payload=None
NullPayload == [isnull |-> TRUE]

\* dict.get(key) on a payload dict
DictGet(d, k) == IF k \in DOMAIN d THEN d[k] ELSE None

\* values a capability of the agent may return: a dict, or a dict that
\* holds an object
CapValues == { [agent_id |-> "custom", state |-> "idle"], [handle |-> Unencodable] }

\* the values tried for the capability a handler waits for in this stage:
\* both for an operation called through Execute and for get_status, the
\* dict for the trigger handler, None for configure, start and cleanup,
\* whose value the wrapper does not use
ReturnValues(st) ==
    IF st \in {"execute", "status"} THEN CapValues
    ELSE IF st = "trigger" THEN {[agent_id |-> "custom", state |-> "idle"]}
    ELSE {NullPayload}

\* bool(params) as tested by `if params:`
Truthy(p) == p \notin {None, "{}"}

\* the agent's text of a raised exception, str(e)
Boom == <<"boom">>

-----------------------------------------------------------------------------
(* Behavior objects *)

CapNames == {"configure", "start", "cleanup", "get_status", "handle_trigger"}

\* agent_template_ipc.py BaseAgent: coroutine lifecycle methods, plain get_status
IpcAgent == [attrs |-> CapNames,
             coroutine |-> {"configure", "start", "cleanup", "handle_trigger"}]

\* a behavior object that has only a plain start()
StartOnlyAgent == [attrs |-> {"start"}, coroutine |-> {}]

\* a behavior object that has nothing the wrapper looks for
BareAgent == [attrs |-> {}, coroutine |-> {}]

AgentKinds == {IpcAgent, StartOnlyAgent, BareAgent}

NoAgent == [attrs |-> {}, coroutine |-> {}, unset |-> TRUE]

-----------------------------------------------------------------------------
(* Input lines *)

StrType(tag) == [form |-> "str", tag |-> tag]
DictType(tag) == [form |-> "dict", tag |-> tag]

JsonLine(keys, id, mt, payload) ==
    [text |-> "json", keys |-> keys, id |-> id, message_type |-> mt, payload |-> payload]

Request(id, mt, payload) == JsonLine({"id", "message_type", "payload"}, id, mt, payload)

GarbageLine == [text |-> "garbage", keys |-> {}, id |-> None,
                message_type |-> StrType(None), payload |-> NullPayload]
BlankLine == [text |-> "blank", keys |-> {}, id |-> None,
              message_type |-> StrType(None), payload |-> NullPayload]

\* what stdin records for a readline() that raised instead of returning a
\* line (bytes that are not valid UTF-8, a stream closed under the reader)
ReadFault == [text |-> "fault", keys |-> {}, id |-> None,
              message_type |-> StrType(None), payload |-> NullPayload]

MalformedLines ==
    { GarbageLine,
      JsonLine({"message_type"}, None, StrType("Status"), NullPayload),
      JsonLine({"id"}, "a", StrType(None), NullPayload) }

\* start is called through Execute with no, empty and non-empty arguments
ExecutePayloads ==
    { [method |-> "start", params |-> p] : p \in {None, "{}", "cfg"} }
      \cup { [method |-> "configure", params |-> "cfg"] }

\* every kind of request, some under one id and some under another
RequestLines ==
    { Request("a", StrType("Execute"), p) : p \in ExecutePayloads }
      \cup { Request("a", DictType("Execute"), [method |-> "get_status", params |-> None]),
             Request("b", StrType("Trigger"), [trigger_type |-> "tick", data |-> "d"]),
             Request("b", StrType("Trigger"), NullPayload),
             Request("a", StrType("Stop"), NullPayload),
             Request("b", StrType("Status"), NullPayload),
             Request("a", StrType("Ping"), NullPayload) }

Lines == MalformedLines \cup {BlankLine} \cup RequestLines

\* json.loads(line) succeeds
JsonValid(line) == line.text = "json"

\* IPCMessage.from_dict(data) succeeds: data['id'] and data['message_type'] exist
HasKeys(line) == {"id", "message_type"} \subseteq line.keys

\* IPCMessage.from_dict
from_dict(line) ==
    [id |-> line.id,
     message_type |-> line.message_type,
     payload |-> IF "payload" \in line.keys THEN line.payload ELSE NullPayload]

Decodable(line) == JsonValid(line) /\ HasKeys(line)

NoMessage == [id |-> None, message_type |-> StrType(None), payload |-> NullPayload,
              unset |-> TRUE]

-----------------------------------------------------------------------------
(* Outgoing envelopes *)

\* the result only in payload, not in the Response body
ResponseMessage_payload_only(id, result) ==
    [id |-> id,
     message_type |-> [form |-> "dict", tag |-> "Response",
                       request_id |-> id, result |-> NullPayload],
     payload |-> result]

\* IPCMessage(id, {"Response": {"request_id": id, "result": result}}, payload=result)
ResponseMessage(id, result) ==
    [id |-> id,
     message_type |-> [form |-> "dict", tag |-> "Response",
                       request_id |-> id, result |-> result],
     payload |-> result]

\* an Error that takes a fresh id, as events do, instead of the request's
create_error_response_fresh_id(request_id, error_message, traceback_str) ==
    [id |-> "error_0",
     message_type |-> [form |-> "dict", tag |-> "Error",
                       message |-> error_message, traceback |-> traceback_str],
     payload |-> [error |-> error_message, traceback |-> traceback_str]]

create_error_response(request_id, error_message, traceback_str) ==
    [id |-> request_id,
     message_type |-> [form |-> "dict", tag |-> "Error",
                       message |-> error_message, traceback |-> traceback_str],
     payload |-> [error |-> error_message, traceback |-> traceback_str]]

\* id = f"heartbeat_{datetime.now().timestamp()}", message_type "Heartbeat"
HeartbeatMessage(n) ==
    [id |-> "heartbeat_" \o ToString(n),
     message_type |-> StrType("Heartbeat"),
     payload |-> NullPayload]

NoResponse == [id |-> None, message_type |-> StrType(None), payload |-> NullPayload]

\* json.dumps(message.to_dict()) succeeds: the payload holds no value json
\* cannot encode
JsonEncodable(m) == "handle" \notin DOMAIN m.payload

\* a writer that puts the line before what was written
StdoutWrite_front(o, line) == <<line>> \o o

\* a writer that does not end the line: what it writes next lands on the
\* same line
StdoutWrite_unterminated(o, line) ==
    IF o = <<>> THEN <<line>> ELSE [o EXCEPT ![Len(o)] = [glued |-> line] @@ @]

\* print(json_str, flush=True): the text and its newline, written by one
\* call that nothing suspends
StdoutWrite(o, line) == Append(o, line)

-----------------------------------------------------------------------------
(* Text of messages, as sequences of their parts *)

\* str(message.message_type) inside an f-string
TypeText(mt) == IF mt.form = "str" THEN <<mt.tag>> ELSE <<"{'", mt.tag, "': {}}">>

\* the text without the kind
UnknownTypeText_unnamed(mt) == <<"Unknown message type">>

UnknownTypeText(mt) == <<"Unknown message type: ">> \o TypeText(mt)

\* the text without the name
MethodNotFoundText_unnamed(method) == <<"Method not found on agent">>

MethodNotFoundText(method) == <<"Method '", method, "' not found on agent">>

\* AttributeError of message.payload.get when payload is None
NoGetText == <<"'NoneType' object has no attribute 'get'">>

\* TypeError of hasattr(self.agent, None)
AttrNameText == <<"attribute name must be string">>

-----------------------------------------------------------------------------
(* The steps a handler is made of *)

\* where a line of out came from: the stdin line that was current and the
\* position of run() when it was written
Origin(idx, at) == [idx |-> idx, at |-> at]

\* heartbeat_task.cancel(): a task that has not finished gets CancelledError
\* at its await
Cancelled(h) == IF h \in {"ready", "sleep"} THEN "cancelled" ELSE h

\* a loop that does not test the flag
LoopTop_ignores_flag(running) ==
    /\ mpc' = "read"
    /\ hpc' = hpc

\* while self.is_running: read the next line; or leave the loop, cancel the
\* heartbeat task and return from run(), which nothing suspends
LoopTop(running) ==
    /\ mpc' = IF running THEN "read" ELSE "exit0"
    /\ hpc' = IF running THEN hpc ELSE Cancelled(hpc)

\* a failure of the decode step that leaves the loop
AfterDecodeError_break(running) ==
    /\ mpc' = "exit0"
    /\ hpc' = Cancelled(hpc)

\* a caught failure of the decode step: log it and go round the loop again
AfterDecodeError(running) == LoopTop(running)

\* except Exception around the body of the loop: log "Error in main loop"
\* and go round the loop again
AfterLoopError(running) == LoopTop(running)

\* the handler starts a capability of the agent and waits for it; a coroutine
\* function is awaited (run() is suspended), a plain function is called
Invoke(log, op, args, st) ==
    /\ calls' = Append(log, [op |-> op, args |-> args, src |-> Len(stdin'),
                             state |-> "pending", value |-> NullPayload])
    /\ stage' = st
    /\ mpc' = IF op \in agent.coroutine THEN "await" ELSE "call"
    /\ hpc' = hpc
    /\ response' = NoResponse

\* the handler returns its IPCMessage to run()
Reply(log, r) ==
    /\ calls' = log
    /\ stage' = "none"
    /\ mpc' = "send"
    /\ hpc' = hpc
    /\ response' = r

\* except Exception in handle_message: the failure becomes an Error envelope
Fail(log, msg, text) == Reply(log, create_error_response(msg.id, text, "traceback"))

\* message.message_type.get(key) if it is a dict, else message.payload.get(key)
Field(msg, key) ==
    IF msg.message_type.form = "dict"
    THEN (IF msg.message_type.tag = key THEN "{}" ELSE None)
    ELSE DictGet(msg.payload, key)

\* message.payload.get raises AttributeError when payload is None
FieldRaises(msg) == msg.message_type.form # "dict" /\ msg.payload = NullPayload

ConfiguredResult(config) == [status |-> "configured", config |-> config]

\* configure_agent from "Start the agent if it has a start method" on
AfterConfigure(log, msg) ==
    IF "start" \in agent.attrs
    THEN Invoke(log, "start", <<>>, "start")
    ELSE Reply(log, ResponseMessage(msg.id, ConfiguredResult(Field(msg, "params"))))

\* a configure step that starts the agent first
configure_agent_start_first(log, msg) ==
    IF "start" \in agent.attrs
    THEN Invoke(log, "start", <<>>, "start")
    ELSE Reply(log, ResponseMessage(msg.id, ConfiguredResult(Field(msg, "params"))))

configure_agent(log, msg) ==
    IF "configure" \in agent.attrs
    THEN Invoke(log, "configure", <<Field(msg, "params")>>, "configure")
    ELSE AfterConfigure(log, msg)

handle_execute(log, msg) ==
    IF FieldRaises(msg) THEN Fail(log, msg, NoGetText)
    ELSE LET method == Field(msg, "method")
             params == Field(msg, "params")
         IN IF method = "configure" THEN configure_agent(log, msg)
            ELSE IF method = None THEN Fail(log, msg, AttrNameText)
            ELSE IF method \in agent.attrs
                 THEN Invoke(log, method, IF Truthy(params) THEN <<params>> ELSE <<>>,
                             "execute")
                 ELSE Fail(log, msg, MethodNotFoundText(method))

NoHandlerResult(trigger_type) == [status |-> "no_handler", trigger_type |-> trigger_type]

\* a trigger handler called with the data alone
handle_trigger_data_only(log, msg) ==
    IF FieldRaises(msg) THEN Fail(log, msg, NoGetText)
    ELSE IF "handle_trigger" \in agent.attrs
         THEN Invoke(log, "handle_trigger", <<Field(msg, "data")>>, "trigger")
         ELSE Reply(log, ResponseMessage(msg.id, NoHandlerResult(Field(msg, "trigger_type"))))

handle_trigger(log, msg) ==
    IF FieldRaises(msg) THEN Fail(log, msg, NoGetText)
    ELSE IF "handle_trigger" \in agent.attrs
         THEN Invoke(log, "handle_trigger",
                     <<Field(msg, "trigger_type"), Field(msg, "data")>>, "trigger")
         ELSE Reply(log, ResponseMessage(msg.id, NoHandlerResult(Field(msg, "trigger_type"))))

StoppedResult == [status |-> "stopped"]

\* a stop handler that leaves the run flag set
handle_stop_keeps_running(log, msg) ==
    /\ is_running' = is_running
    /\ IF "cleanup" \in agent.attrs
       THEN Invoke(log, "cleanup", <<>>, "cleanup")
       ELSE Reply(log, ResponseMessage(msg.id, StoppedResult))

handle_stop(log, msg) ==
    /\ is_running' = FALSE
    /\ IF "cleanup" \in agent.attrs
       THEN Invoke(log, "cleanup", <<>>, "cleanup")
       ELSE Reply(log, ResponseMessage(msg.id, StoppedResult))

\* the base status record of handle_status
BaseStatus(running) ==
    [agent_id |-> "AGENT_ID", is_running |-> running,
     script_path |-> "AGENT_SCRIPT_PATH", uptime |-> 0]

\* status.update(agent_data): the agent's values win
Update(status, agent_data) == agent_data @@ status

handle_status(log, msg) ==
    IF "get_status" \in agent.attrs
    THEN Invoke(log, "get_status", <<>>, "status")
    ELSE Reply(log, ResponseMessage(msg.id, BaseStatus(is_running)))

\* a router whose Status handling clears the run flag
handle_message_status_stops(log, msg) ==
    LET mt == msg.message_type
        Is(kind) == mt.form = "str" /\ mt.tag = kind
    IN IF Is("Execute") THEN handle_execute(log, msg) /\ UNCHANGED is_running
       ELSE IF Is("Trigger") THEN handle_trigger(log, msg) /\ UNCHANGED is_running
       ELSE IF Is("Stop") THEN handle_stop(log, msg)
       ELSE IF Is("Status") THEN handle_status(log, msg) /\ is_running' = FALSE
       ELSE Fail(log, msg, UnknownTypeText(mt)) /\ UNCHANGED is_running

\* handle_message: route on message.message_type == "<kind>"
handle_message(log, msg) ==
    LET mt == msg.message_type
        Is(kind) == mt.form = "str" /\ mt.tag = kind
    IN IF Is("Execute") THEN handle_execute(log, msg) /\ UNCHANGED is_running
       ELSE IF Is("Trigger") THEN handle_trigger(log, msg) /\ UNCHANGED is_running
       ELSE IF Is("Stop") THEN handle_stop(log, msg)
       ELSE IF Is("Status") THEN handle_status(log, msg) /\ UNCHANGED is_running
       ELSE Fail(log, msg, UnknownTypeText(mt)) /\ UNCHANGED is_running

\* the handler goes on after the capability it waited for returned value
Returned(log, msg, value) ==
    CASE stage = "execute" -> Reply(log, ResponseMessage(msg.id, value))
      [] stage = "configure" -> AfterConfigure(log, msg)
      [] stage = "start" ->
            Reply(log, ResponseMessage(msg.id, ConfiguredResult(Field(msg, "params"))))
      [] stage = "trigger" -> Reply(log, ResponseMessage(msg.id, value))
      [] stage = "cleanup" -> Reply(log, ResponseMessage(msg.id, StoppedResult))
      [] stage = "status" ->
            Reply(log, ResponseMessage(msg.id, Update(BaseStatus(is_running), value)))

\* a failure of the capability that nothing catches: it ends run()
Raised_unhandled(log, msg) ==
    /\ calls' = log
    /\ stage' = "none"
    /\ mpc' = "exit1"
    /\ hpc' = Cancelled(hpc)
    /\ response' = NoResponse

\* a handler that surfaces every failure of a capability as an Error
Raised_surfaced(log, msg) == Fail(log, msg, Boom)

\* the handler goes on after the capability it waited for raised
Raised(log, msg) ==
    CASE stage \in {"execute", "configure", "start", "trigger"} -> Fail(log, msg, Boom)
      [] stage = "cleanup" -> Reply(log, ResponseMessage(msg.id, StoppedResult))
      [] stage = "status" -> Reply(log, ResponseMessage(msg.id, BaseStatus(is_running)))

\* send_message: encode and print, a failure of either is logged and dropped
send_message(o, m) == IF JsonEncodable(m) THEN StdoutWrite(o, m) ELSE o

\* the record of it in cause
Sent(c, m, origin) == IF JsonEncodable(m) THEN StdoutWrite(c, origin) ELSE c

-----------------------------------------------------------------------------
(* The environment: the script AGENT_SCRIPT_PATH names *)

\* the ways initialize() raises: AGENT_SCRIPT_PATH is not set, it names no
\* file, or executing the module (or building the agent from it) raises
LoadFailures == {"unset", "missing", "raises"}

\* hasattr(agent_module, name) is false
Absent == [absent |-> TRUE]

\* calling the class or the factory raises
Raising == [raises |-> TRUE]

\* a module: what Agent() gives, what create_agent() gives, and what the
\* module itself has when it is used as the behavior object
Module(Agent, create_agent, self) ==
    [Agent |-> Agent, create_agent |-> create_agent, self |-> self, called |-> <<>>]

NoModule == [unset |-> TRUE, called |-> <<>>]

\* a module with both the class and the factory (as agent_template_ipc.py),
\* with the factory only, with neither, with a factory that cannot be
\* called without arguments (as agent_template.py) and with a class whose
\* constructor raises
Modules ==
    { Module(IpcAgent, StartOnlyAgent, BareAgent),
      Module(Absent, StartOnlyAgent, BareAgent),
      Module(Absent, Absent, BareAgent),
      Module(Absent, Raising, BareAgent),
      Module(Raising, StartOnlyAgent, BareAgent) }

\* a choice that looks for the factory before the class
Chosen_factory_first(m) ==
    IF m.create_agent # Absent THEN "create_agent"
    ELSE IF m.Agent # Absent THEN "Agent"
    ELSE "self"

\* if hasattr(agent_module, 'Agent') ... elif hasattr(agent_module,
\* 'create_agent') ... else: which of the three initialize() takes
Chosen(m) ==
    IF m.Agent # Absent THEN "Agent"
    ELSE IF m.create_agent # Absent THEN "create_agent"
    ELSE "self"

\* self.agent = agent_module.Agent(), agent_module.create_agent() or
\* agent_module
Built(m) ==
    CASE Chosen(m) = "Agent" -> m.Agent
      [] Chosen(m) = "create_agent" -> m.create_agent
      [] Chosen(m) = "self" -> m.self

\* the record of the call initialize() makes for its choice
Called(m) == IF Chosen(m) = "self" THEN <<>> ELSE <<Chosen(m)>>

Scripts == {[found |-> FALSE, failure |-> f, module |-> NoModule] : f \in LoadFailures}
             \cup {[found |-> TRUE, failure |-> None, module |-> m] : m \in Modules}

-----------------------------------------------------------------------------
(* Actions *)

Init ==
    /\ is_running = FALSE
    /\ agent = NoAgent
    /\ agent_module = NoModule
    /\ calls = <<>>
    /\ mpc = "init"
    /\ hpc = "none"
    /\ stdin = <<>>
    /\ message = NoMessage
    /\ stage = "none"
    /\ response = NoResponse
    /\ out = <<>>
    /\ cause = <<>>
    /\ completed = {}
    /\ beats = 0

\* an initialize that sets the run flag before it loads the script
Initialize_flag_first ==
    /\ mpc = "init"
    /\ is_running' = TRUE
    /\ \E script \in Scripts :
          IF ~script.found
          THEN /\ mpc' = "exit1"
               /\ UNCHANGED <<agent, agent_module, hpc>>
          ELSE /\ agent_module' = [script.module EXCEPT !.called = Called(script.module)]
               /\ IF Built(script.module) = Raising
                  THEN /\ mpc' = "exit1"
                       /\ UNCHANGED <<agent, hpc>>
                  ELSE /\ agent' = Built(script.module)
                       /\ hpc' = "ready"
                       /\ mpc' = "read"
    /\ UNCHANGED <<calls, stdin, message, stage, response, out, cause, completed, beats>>

\* run(): await self.initialize(), then create the heartbeat task and enter
\* the loop; a failure of initialize is fatal (sys.exit(1))
Initialize ==
    /\ mpc = "init"
    /\ \E script \in Scripts :
          IF ~script.found
          THEN /\ mpc' = "exit1"
               /\ UNCHANGED <<agent, agent_module, is_running, hpc>>
          ELSE /\ agent_module' = [script.module EXCEPT !.called = Called(script.module)]
               /\ IF Built(script.module) = Raising
                  THEN /\ mpc' = "exit1"
                       /\ UNCHANGED <<agent, is_running, hpc>>
                  ELSE /\ agent' = Built(script.module)
                       /\ is_running' = TRUE
                       /\ hpc' = "ready"
                       /\ mpc' = "read"
    /\ UNCHANGED <<calls, stdin, message, stage, response, out, cause, completed, beats>>

\* a loop that reads on while a handler is suspended
CanRead_while_handling == mpc \in {"read", "await"} /\ hpc # "ready"

\* run() reads only at its own await of readline: it awaits handle_message
\* and send_message before it comes round to it.  The event loop runs its
\* ready callbacks in order, so the first step of the heartbeat task, made
\* ready by create_task, runs before the executor's result resumes run()
CanRead == mpc = "read" /\ hpc # "ready"

\* one readline() that returns a line, and what run() does with it up to the
\* next point where it waits
ReadLine ==
    /\ CanRead
    /\ Len(stdin) < MaxLines
    /\ \E line \in Lines :
          /\ stdin' = Append(stdin, line)
          /\ IF line.text = "blank"
             THEN /\ LoopTop(is_running)
                  /\ UNCHANGED <<is_running, calls, message, stage, response>>
             ELSE IF ~Decodable(line)
             THEN /\ AfterDecodeError(is_running)
                  /\ UNCHANGED <<is_running, calls, message, stage, response>>
             ELSE /\ message' = from_dict(line)
                  /\ handle_message(calls, from_dict(line))
    /\ UNCHANGED <<agent, agent_module, out, cause, completed, beats>>

\* readline() raises: the failure is caught by the loop's own except
\* Exception, which logs it and goes on to the loop test
ReadRaises ==
    /\ CanRead
    /\ Len(stdin) < MaxLines
    /\ stdin' = Append(stdin, ReadFault)
    /\ AfterLoopError(is_running)
    /\ UNCHANGED <<is_running, agent, agent_module, calls, message, stage, response, out, cause,
                   completed, beats>>

\* readline() returns "" at end of input: break, cancel the heartbeat task
\* and return from run()
ReadEOF ==
    /\ CanRead
    /\ mpc' = "exit0"
    /\ hpc' = Cancelled(hpc)
    /\ UNCHANGED <<is_running, agent, agent_module, calls, stdin, message, stage, response,
                   out, cause, completed, beats>>

\* the capability the handler waits for returns a value
CapabilityReturns ==
    /\ mpc \in {"call", "await"}
    /\ UNCHANGED <<is_running, agent, agent_module, stdin, message, out, cause, completed, beats>>
    /\ \E value \in ReturnValues(stage) :
          Returned([calls EXCEPT ![Len(calls)].state = "returned",
                                 ![Len(calls)].value = value], message, value)

\* the capability the handler waits for raises
CapabilityRaises ==
    /\ mpc \in {"call", "await"}
    /\ UNCHANGED <<is_running, agent, agent_module, stdin, message, out, cause, completed, beats>>
    /\ Raised([calls EXCEPT ![Len(calls)].state = "raised"], message)

\* if response: await self.send_message(response), then the loop test
SendReply ==
    /\ mpc = "send"
    /\ out' = send_message(out, response)
    /\ cause' = Sent(cause, response, Origin(Len(stdin), "send"))
    /\ completed' = completed \cup {Len(stdin)}
    /\ message' = NoMessage
    /\ response' = NoResponse
    /\ LoopTop(is_running)
    /\ UNCHANGED <<is_running, agent, agent_module, calls, stdin, stage, beats>>

\* run() is suspended, so the event loop can run the heartbeat task
MainSuspended == mpc \in {"read", "await"}

\* heartbeat_loop starts: while self.is_running: await asyncio.sleep(30)
HeartbeatStart ==
    /\ hpc = "ready"
    /\ MainSuspended
    /\ hpc' = IF is_running THEN "sleep" ELSE "done"
    /\ UNCHANGED <<is_running, agent, agent_module, calls, mpc, stdin, message, stage, response,
                   out, cause, completed, beats>>

\* a heartbeat loop that sends after its sleep without testing the flag again
HeartbeatTick_unchecked ==
    /\ hpc = "sleep"
    /\ MainSuspended
    /\ beats < MaxBeats
    /\ out' = send_message(out, HeartbeatMessage(beats))
    /\ cause' = Sent(cause, HeartbeatMessage(beats), Origin(Len(stdin), mpc))
    /\ beats' = beats + 1
    /\ hpc' = IF is_running THEN "sleep" ELSE "done"
    /\ UNCHANGED <<is_running, agent, agent_module, calls, mpc, stdin, message, stage, response,
                   completed>>

\* a heartbeat that asks the agent for its status as it is sent
HeartbeatTick_polls_agent ==
    /\ hpc = "sleep"
    /\ MainSuspended
    /\ is_running
    /\ beats < MaxBeats
    /\ calls' = Append(calls, [op |-> "get_status", args |-> <<>>, src |-> Len(stdin),
                               state |-> "pending", value |-> NullPayload])
    /\ out' = send_message(out, HeartbeatMessage(beats))
    /\ cause' = Sent(cause, HeartbeatMessage(beats), Origin(Len(stdin), mpc))
    /\ beats' = beats + 1
    /\ hpc' = "sleep"
    /\ UNCHANGED <<is_running, agent, agent_module, mpc, stdin, message, stage, response, completed>>

\* the sleep is over: if self.is_running: await self.send_heartbeat(), then
\* the loop test again
HeartbeatTick ==
    /\ hpc = "sleep"
    /\ MainSuspended
    /\ IF is_running
       THEN /\ beats < MaxBeats
            /\ out' = send_message(out, HeartbeatMessage(beats))
            /\ cause' = Sent(cause, HeartbeatMessage(beats), Origin(Len(stdin), mpc))
            /\ beats' = beats + 1
            /\ hpc' = "sleep"
       ELSE /\ hpc' = "done"
            /\ UNCHANGED <<out, cause, beats>>
    /\ UNCHANGED <<is_running, agent, agent_module, calls, mpc, stdin, message, stage, response,
                   completed>>

Next ==
    \/ Initialize
    \/ ReadLine
    \/ ReadRaises
    \/ ReadEOF
    \/ CapabilityReturns
    \/ CapabilityRaises
    \/ SendReply
    \/ HeartbeatStart
    \/ HeartbeatTick

Spec == Init /\ [][Next]_vars

\* The event loop resumes run() when what it awaits is done: a capability
\* that was invoked ends (it returns or raises), and a reply that
\* handle_message returned is sent.  Nothing is asked of the input (the
\* host may never send a line nor close the stream) nor of the heartbeat.
FairSpec ==
    /\ Spec
    /\ WF_vars(CapabilityReturns \/ CapabilityRaises)
    /\ WF_vars(SendReply)

-----------------------------------------------------------------------------
(* Vocabulary of the properties *)

IsResponse(m) == m.message_type.form = "dict" /\ m.message_type.tag = "Response"
IsError(m) == m.message_type.form = "dict" /\ m.message_type.tag = "Error"
IsReply(m) == IsResponse(m) \/ IsError(m)
IsHeartbeat(m) == m.message_type = StrType("Heartbeat")

\* the stdin lines that decoded to an Envelope
Requests == {i \in 1..Len(stdin) : Decodable(stdin[i])}

\* line i is a request of this kind, in the bare-string form
IsKind(i, kind) == i \in Requests /\ stdin[i].message_type = StrType(kind)

\* the replies written while line i was the current one
Replies(i) == {j \in 1..Len(out) : cause[j].at = "send" /\ cause[j].idx = i}

\* the invocations made on the behavior object for line i
CallsFor(i) == {k \in 1..Len(calls) : calls[k].src = i}

\* line i is an Execute request, bare-string form, that names an operation
IsExecute(i) ==
    /\ IsKind(i, "Execute")
    /\ stdin[i].payload # NullPayload
    /\ stdin[i].payload.method # None

Method(i) == stdin[i].payload.method

\* m is the Response under this id with this result
IsResponseWith(m, id, result) ==
    /\ IsResponse(m)
    /\ m.id = id
    /\ m.message_type.request_id = id
    /\ m.message_type.result = result

\* the text holds the part
Contains(text, part) == \E n \in 1..Len(text) : text[n] = part

-----------------------------------------------------------------------------
(* C1: every decoded line gets exactly one reply written, whatever its kind *)
(* and whatever its handler returned or raised: never two, and one once its *)
(* handling is over.                                                        *)
C1_ExactlyOneReply ==
    \A i \in Requests :
        /\ Cardinality(Replies(i)) <= 1
        /\ i \in completed => Cardinality(Replies(i)) = 1

(* C2: every Response or Error written carries the id of the request whose  *)
(* handling produced it, and a Response carries it as request_id too.       *)
C2_ReplyCarriesRequestId ==
    \A j \in 1..Len(out) :
        IsReply(out[j]) =>
            /\ cause[j].idx \in Requests
            /\ out[j].id = stdin[cause[j].idx].id
            /\ IsResponse(out[j]) =>
                   out[j].message_type.request_id = stdin[cause[j].idx].id

\* an Error under one id and then a Response under another have been written
C2_Witness ==
    \E j, k \in 1..Len(out) :
        /\ j < k
        /\ IsError(out[j]) /\ out[j].id = "a"
        /\ IsResponse(out[k]) /\ out[k].id = "b"
        /\ cause[j].idx # cause[k].idx

(* C3, as stated: for an Execute request naming an operation that exists    *)
(* and returns, the reply is a Response with the request's id whose result  *)
(* is the value the operation returned.                                     *)
C3_ResultIsReturnValue ==
    \A i \in Requests : \A j \in Replies(i) : \A k \in CallsFor(i) :
        (/\ IsExecute(i)
         /\ Method(i) \in agent.attrs
         /\ calls[k].op = Method(i)
         /\ calls[k].state = "returned")
        => IsResponseWith(out[j], stdin[i].id, calls[k].value)

(* C3, amended: the same for every operation other than configure; the     *)
(* reply is written whenever the returned value can be encoded as JSON.     *)
C3_ResultIsReturnValueExceptConfigure ==
    \A i \in Requests : \A k \in CallsFor(i) :
        (/\ IsExecute(i)
         /\ Method(i) # "configure"
         /\ Method(i) \in agent.attrs
         /\ calls[k].op = Method(i)
         /\ calls[k].state = "returned")
        => /\ \A j \in Replies(i) : IsResponseWith(out[j], stdin[i].id, calls[k].value)
           /\ (i \in completed /\ "handle" \notin DOMAIN calls[k].value)
                  => Replies(i) # {}

\* a Response to Execute start with arguments, holding what the coroutine
\* returned
C3_Witness ==
    \E i \in Requests : \E j \in Replies(i) : \E k \in CallsFor(i) :
        /\ IsExecute(i)
        /\ Method(i) = "start"
        /\ "start" \in agent.coroutine
        /\ calls[k].args = <<"cfg">>
        /\ calls[k].state = "returned"
        /\ IsResponse(out[j])
        /\ out[j].message_type.result = calls[k].value

C5_RepliesInRequestOrder ==
    \A j, k \in 1..Len(out) :
        (IsReply(out[j]) /\ IsReply(out[k]) /\ cause[j].idx < cause[k].idx)
        => /\ j < k
           /\ out[j].id = stdin[cause[j].idx].id
           /\ out[k].id = stdin[cause[k].idx].id

\* two replies under different ids with a heartbeat between them
C5_Witness ==
    /\ Len(out) = 3
    /\ IsReply(out[1]) /\ IsHeartbeat(out[2]) /\ IsReply(out[3])
    /\ out[1].id # out[3].id

(* C6: dispatch is single-flight: at most one request is being handled,     *)
(* it is the line read last, and run() is back at its read only when every  *)
(* request read so far has been handled and its send has returned, also     *)
(* when the handler was suspended and the heartbeat ran meanwhile.          *)
InFlight == Requests \ completed

C6_SingleFlight ==
    /\ Cardinality(InFlight) <= 1
    /\ InFlight \subseteq {Len(stdin)}
    /\ mpc = "read" => InFlight = {}
    /\ mpc \in {"call", "await", "send"} => InFlight = {Len(stdin)}

\* a handler is suspended in a coroutine capability, a heartbeat was written
\* during that suspension, and an earlier request has its reply
C6_Witness ==
    /\ mpc = "await"
    /\ InFlight = {Len(stdin)}
    /\ Len(stdin) = 2
    /\ Replies(1) # {}
    /\ \E j \in 1..Len(out) :
           IsHeartbeat(out[j]) /\ cause[j] = Origin(Len(stdin), "await")

(* C7: a Stop request gets exactly one reply, the Response {status:         *)
(* "stopped"} under its id; once it is written the loop has left, it stays  *)
(* the last line of the output and the Stop line stays the last line read.  *)
C7_StopIsLast ==
    \A i \in Requests :
        (IsKind(i, "Stop") /\ i \in completed)
        => /\ Replies(i) = {Len(out)}
           /\ IsResponseWith(out[Len(out)], stdin[i].id, [status |-> "stopped"])
           /\ i = Len(stdin)
           /\ mpc = "exit0"
           /\ ~is_running

\* run() has returned after a Stop that followed a request and a heartbeat,
\* with the heartbeat task cancelled while it slept
C7_Witness ==
    /\ mpc = "exit0"
    /\ hpc = "cancelled"
    /\ Len(stdin) = 2
    /\ IsKind(2, "Stop")
    /\ Len(out) = 3
    /\ \E j \in 1..Len(out) : IsHeartbeat(out[j])

(* C8: reading a malformed line (not JSON, or JSON without id or            *)
(* message_type) writes nothing, leaves the run flag and the behavior       *)
(* object as they were and goes back to reading; a request on a later line  *)
(* is answered under its own id.                                            *)
Malformed(line) == line.text \in {"garbage", "json"} /\ ~Decodable(line)

MalformedBefore(i) == \E n \in 1..(i - 1) : Malformed(stdin[n])

C8_MalformedLineDropped ==
    /\ [][(Len(stdin') = Len(stdin) + 1 /\ Malformed(stdin'[Len(stdin')]))
            => /\ out' = out
               /\ is_running' = is_running
               /\ agent' = agent
               /\ calls' = calls
               /\ mpc' = "read"]_vars
    /\ [](\A i \in Requests : \A j \in Replies(i) :
              MalformedBefore(i) => out[j].id = stdin[i].id)
    /\ [](\A i \in Requests :
              (MalformedBefore(i) /\ i \notin completed) => mpc \in {"call", "await", "send"})

\* a JSON line without message_type was read, and the request after it has
\* its Response
C8_Witness ==
    /\ Len(stdin) = 2
    /\ stdin[1].text = "json" /\ "message_type" \notin stdin[1].keys
    /\ \E j \in Replies(2) : IsResponse(out[j]) /\ out[j].id = "b"

(* C9: a request whose kind is the single-key object {"Execute": {...}},    *)
(* with payload method get_status, on an agent that has get_status, is      *)
(* answered by a Response with request_id the request's id, not an Error.   *)
C9_ObjectFormRouted ==
    \A i \in Requests : \A j \in Replies(i) :
        (/\ stdin[i].message_type = DictType("Execute")
         /\ DictGet(stdin[i].payload, "method") = "get_status"
         /\ "get_status" \in agent.attrs)
        => /\ IsResponse(out[j])
           /\ out[j].message_type.request_id = stdin[i].id

(* C10: a Trigger request is answered by a Response under its id: with a    *)
(* trigger handler, the handler is called with (trigger_type, data) and the *)
(* result is what it returned; without one, nothing is invoked and the      *)
(* result is {status: "no_handler", trigger_type}.                          *)
IsTrigger(i) == IsKind(i, "Trigger") /\ stdin[i].payload # NullPayload

IsConfigure(i) == IsExecute(i) /\ Method(i) = "configure"

CleanupCalls == {k \in 1..Len(calls) : calls[k].op = "cleanup"}

C12_OrderlyShutdown ==
    mpc = "exit0" =>
        /\ hpc \in {"cancelled", "done"}
        /\ "cleanup" \in agent.attrs => Cardinality(CleanupCalls) = 1
        /\ ~is_running

(* C13: when a capability invoked for an Execute or Trigger request raises, *)
(* the run flag stays as it was and the handler hands an Error with the     *)
(* request's id and the failure's text to the send; once it is sent the     *)
(* loop is back at its read with the flag still set, and a request on a     *)
(* later line is dispatched.                                                *)
RaisedFor(i) == \E k \in CallsFor(i) : calls[k].state = "raised"

IsErrorWith(m, id, text) ==
    /\ IsError(m)
    /\ m.id = id
    /\ m.message_type.message = text

C13_CapabilityFailureContained ==
    /\ [][\A k \in 1..Len(calls) :
            (/\ IsExecute(calls[k].src) \/ IsTrigger(calls[k].src)
             /\ calls[k].state = "pending"
             /\ Len(calls') >= k
             /\ calls'[k].state = "raised")
            => /\ is_running' = is_running
               /\ mpc' = "send"
               /\ IsErrorWith(response', stdin[calls[k].src].id, <<"boom">>)]_vars
    /\ [][\A i \in Requests :
            (/\ IsExecute(i) \/ IsTrigger(i)
             /\ RaisedFor(i)
             /\ i \notin completed
             /\ i \in completed')
            => /\ out' = Append(out, response)
               /\ IsErrorWith(response, stdin[i].id, <<"boom">>)
               /\ is_running'
               /\ mpc' = "read"]_vars
    /\ [](\A i, n \in Requests :
            ((IsExecute(i) \/ IsTrigger(i)) /\ RaisedFor(i) /\ i < n /\ n \notin completed)
            => mpc \in {"call", "await", "send"})

\* the trigger handler raised for the first request, its Error is on the
\* output, and the request after it has its Response
C13_Witness ==
    /\ Len(stdin) = 2
    /\ IsTrigger(1) /\ RaisedFor(1)
    /\ \E j \in Replies(1) : IsErrorWith(out[j], "b", <<"boom">>)
    /\ \E j \in Replies(2) : IsResponse(out[j]) /\ out[j].id = "a"
    /\ is_running

(* C14: a Heartbeat is written only by a step taken with the run flag set   *)
(* and the heartbeat task alive; once the flag is cleared (from the start   *)
(* of Stop handling, cleanup included) or the task is cancelled or over,    *)
(* the flag stays cleared, a dead task stays dead and no Heartbeat is added. *)
Heartbeats(o) == {j \in 1..Len(o) : IsHeartbeat(o[j])}

HeartbeatOff == (mpc # "init" /\ ~is_running) \/ hpc \in {"cancelled", "done"}

C14_HeartbeatOnlyWhileRunning ==
    /\ [][Heartbeats(out') # Heartbeats(out)
            => /\ is_running /\ is_running'
               /\ hpc = "sleep"
               /\ mpc \in {"read", "await"}]_vars
    /\ [][HeartbeatOff
            => /\ Heartbeats(out') = Heartbeats(out)
               /\ hpc \in {"cancelled", "done"} => hpc' = hpc
               /\ ~is_running => ~is_running']_vars

\* a heartbeat was written, then Stop cleared the flag and the heartbeat
\* task woke during cleanup and ended without writing
C14_Witness ==
    /\ ~is_running
    /\ mpc = "await" /\ stage = "cleanup"
    /\ hpc = "done"
    /\ Cardinality(Heartbeats(out)) = 1

(* C15: while the run flag is set and a request's capability is running,    *)
(* plain or coroutine, a heartbeat whose sleep is over can be written       *)
(* before the handling ends; and whatever the heartbeat task is at, the     *)
(* handling can take its next step.                                         *)
HeartbeatDue == hpc = "sleep" /\ beats < MaxBeats

C15_HeartbeatNotBlocked ==
    /\ (is_running /\ mpc \in {"call", "await"} /\ HeartbeatDue) => ENABLED HeartbeatTick
    /\ mpc \in {"call", "await"} => ENABLED CapabilityReturns
    /\ mpc = "send" => ENABLED SendReply

(* C16: under every interleaving of the loop and the heartbeat task, a step *)
(* that writes adds exactly one line to the output and leaves the lines     *)
(* before it as they were; the new line is, whole, the one Envelope being   *)
(* sent: the reply the loop holds, or the heartbeat of the task.            *)
C16_WritesAreWholeLines ==
    [][out' # out
        => /\ Len(out') = Len(out) + 1
           /\ SubSeq(out', 1, Len(out)) = out
           /\ \/ mpc = "send" /\ out'[Len(out')] = response
              \/ /\ hpc = "sleep" /\ mpc \in {"read", "await"}
                 /\ out'[Len(out')] = [id |-> "heartbeat_" \o ToString(beats),
                                       message_type |-> [form |-> "str", tag |-> "Heartbeat"],
                                       payload |-> [isnull |-> TRUE]]]_vars

\* a heartbeat was written while the handler of a request was suspended,
\* and the reply to that request is the line after it
C16_Witness ==
    /\ Len(out) = 2
    /\ IsHeartbeat(out[1]) /\ cause[1] = [idx |-> 1, at |-> "await"]
    /\ IsReply(out[2]) /\ cause[2] = [idx |-> 1, at |-> "send"]

(* C17: when loading the behavior object fails, the process is at its       *)
(* exit with status 1 and stays there: the run flag was never set, the      *)
(* heartbeat task never created, no line read, nothing invoked and nothing  *)
(* written.                                                                 *)
LoadFailed == mpc # "init" /\ "unset" \in DOMAIN agent

C17_LoadFailureIsFatal ==
    /\ LoadFailed => mpc = "exit1"
    /\ mpc = "exit1" =>
           /\ ~is_running
           /\ hpc = "none"
           /\ stdin = <<>>
           /\ calls = <<>>
           /\ out = <<>>
           /\ ~ENABLED Next

\* initialize() has raised and the process has exited
C17_Witness == LoadFailed /\ mpc = "exit1" /\ ~is_running

(* C18: after a successful load, once a Stop has been read the run loop     *)
(* ends with exit status 0, every invoked capability ending; a step of the  *)
(* loop that finds the end of input ends it with status 0 at once; the      *)
(* exit is final, and status 1 is reached only by a failed load.            *)
StopRead == \E i \in Requests : IsKind(i, "Stop")

C18_GracefulExit ==
    /\ StopRead ~> (mpc = "exit0")
    /\ [][(mpc = "read" /\ mpc' # "read" /\ stdin' = stdin) => mpc' = "exit0"]_vars
    /\ [][(mpc \in {"exit0", "exit1"}) => UNCHANGED mpc]_vars
    /\ [](mpc = "exit1" => LoadFailed)

\* run() has returned after a Stop whose cleanup was awaited and returned
C18_Witness ==
    /\ mpc = "exit0"
    /\ StopRead
    /\ \E k \in 1..Len(calls) :
           /\ calls[k].op = "cleanup" /\ calls[k].state = "returned"
           /\ "cleanup" \in agent.coroutine

(* C19: a read of the input that raises starts the shutdown, as a Stop      *)
(* does: by the step that meets it the run flag is cleared, the loop is     *)
(* left and the heartbeat task is cancelled; the loop does not read again.  *)
C19_ReadFailureShutsDown ==
    [][(Len(stdin') = Len(stdin) + 1 /\ stdin'[Len(stdin')].text = "fault")
        => /\ ~is_running'
           /\ mpc' = "exit0"
           /\ hpc' \in {"cancelled", "done"}]_vars

(* C20: for an Execute request on an existing operation other than          *)
(* configure, the operation is invoked with the request's args as its one   *)
(* argument whenever args is not null, an empty args included, and with no  *)
(* argument only when args is null; plain and coroutine operations alike.   *)
C20_ArgsPassedWhenNonNull ==
    \A i \in Requests : \A k \in CallsFor(i) :
        (IsExecute(i) /\ Method(i) # "configure" /\ Method(i) \in agent.attrs)
        => /\ calls[k].op = Method(i)
           /\ calls[k].args = IF stdin[i].payload.params # "None"
                               THEN <<stdin[i].payload.params>>
                               ELSE <<>>

(* C21: a Status request is always answered by one Response under its id,  *)
(* never an Error; its result holds agent_id, is_running and uptime; with   *)
(* get_status, what it returned is merged in and wins on a shared key;      *)
(* without it, or when it raised, the result is the base record.            *)
IsStatus(i) == IsKind(i, "Status")

BaseRecord == [agent_id |-> "AGENT_ID", is_running |-> TRUE,
               script_path |-> "AGENT_SCRIPT_PATH", uptime |-> 0]

\* the record the reply to Status request i has to hold
StatusRecord(i) ==
    IF \E k \in CallsFor(i) : calls[k].state = "returned"
    THEN LET k == CHOOSE k \in CallsFor(i) : calls[k].state = "returned"
         IN [key \in DOMAIN calls[k].value \cup DOMAIN BaseRecord |->
                IF key \in DOMAIN calls[k].value THEN calls[k].value[key]
                ELSE BaseRecord[key]]
    ELSE BaseRecord

C21_StatusShape ==
    \A i \in Requests :
        IsStatus(i) =>
            /\ \A j \in Replies(i) :
                   /\ IsResponseWith(out[j], stdin[i].id, StatusRecord(i))
                   /\ {"agent_id", "is_running", "uptime"}
                          \subseteq DOMAIN out[j].message_type.result

C21_StatusAlwaysAnswered ==
    /\ C21_StatusShape
    /\ \A i \in Requests :
           (IsStatus(i) /\ i \in completed) => Cardinality(Replies(i)) = 1

(* C22: a request whose kind is a name other than Execute, Trigger, Stop    *)
(* and Status invokes nothing on the behavior object, leaves the run flag   *)
(* set, and is answered by one Error under its id whose message is          *)
(* "Unknown message type: " followed by the kind.                           *)
IsUnknownKind(i) ==
    /\ i \in Requests
    /\ stdin[i].message_type.form = "str"
    /\ stdin[i].message_type.tag \notin {"Execute", "Trigger", "Stop", "Status"}

C22_UnknownKindIsError ==
    \A i \in Requests :
        IsUnknownKind(i) =>
            /\ CallsFor(i) = {}
            /\ i = Len(stdin) => is_running
            /\ i \in completed => Cardinality(Replies(i)) = 1
            /\ \A j \in Replies(i) :
                   IsErrorWith(out[j], stdin[i].id,
                               <<"Unknown message type: ", stdin[i].message_type.tag>>)

\* a Ping got its Error and the Status request after it its Response
C22_Witness ==
    /\ Len(stdin) = 2
    /\ IsUnknownKind(1) /\ stdin[1].message_type.tag = "Ping"
    /\ \E j \in Replies(1) : IsError(out[j]) /\ out[j].id = "a"
    /\ IsStatus(2)
    /\ \E j \in Replies(2) : IsResponse(out[j]) /\ out[j].id = "b"

(* C23: on Stop the run flag is cleared before cleanup is invoked; that     *)
(* Stop invokes cleanup once if the behavior object has it and nothing      *)
(* otherwise; and whether cleanup returned or raised, the one reply is the  *)
(* Response {status: "stopped"} under the request's id, never an Error.     *)
C23_StopCleanup ==
    \A i \in Requests :
        IsKind(i, "Stop") =>
            /\ ~is_running
            /\ \A k \in CallsFor(i) : calls[k].op = "cleanup" /\ calls[k].args = <<>>
            /\ Cardinality(CallsFor(i)) = IF "cleanup" \in agent.attrs THEN 1 ELSE 0
            /\ i \in completed => Cardinality(Replies(i)) = 1
            /\ \A j \in Replies(i) :
                   IsResponseWith(out[j], stdin[i].id, [status |-> "stopped"])

\* cleanup raised and the Stop still has its Response
C23_Witness ==
    \E i \in Requests : \E k \in CallsFor(i) : \E j \in Replies(i) :
        /\ IsKind(i, "Stop")
        /\ calls[k].op = "cleanup" /\ calls[k].state = "raised"
        /\ IsResponse(out[j])

(* C24: the loop is left and the heartbeat task cancelled only where no     *)
(* request is being handled: when run() has returned, every request read    *)
(* has had its capability run to its end and its handling finished, and     *)
(* its reply is on the output.                                              *)
C24_ExitBetweenRequests ==
    (mpc = "exit0" \/ hpc = "cancelled") =>
        /\ mpc = "exit0"
        /\ InFlight = {}
        /\ Requests \subseteq completed
        /\ \A k \in 1..Len(calls) : calls[k].state # "pending"

C24_NoDispatchInterrupted ==
    /\ C24_ExitBetweenRequests
    /\ mpc = "exit0" => \A i \in Requests : Replies(i) # {}

(* C25: a send of an Envelope whose payload cannot be encoded as JSON       *)
(* fails fatally: the step does not end as a send that went well, with the  *)
(* request counted as handled and the loop going on or returning normally.  *)
C25_EncodeFailureIsFatal ==
    [][(mpc = "send" /\ "handle" \in DOMAIN response.payload /\ mpc' # "send")
        => /\ mpc' = "exit1"
           /\ Len(stdin) \notin completed']_vars

(* C26: the run flag only moves forward: it is set only by the step of a    *)
(* successful load, cleared only by the step that reads a Stop request,     *)
(* and once cleared after the load it is never set again; no step of the    *)
(* heartbeat task and no Execute, Trigger or Status handling changes it.    *)
C26_RunFlagMovesForward ==
    [][/\ (~is_running /\ is_running')
           => /\ mpc = "init" /\ mpc' = "read"
              /\ "unset" \notin DOMAIN agent'
       /\ (is_running /\ ~is_running')
           => /\ mpc = "read"
              /\ Len(stdin') = Len(stdin) + 1
              /\ Decodable(stdin'[Len(stdin')])
              /\ stdin'[Len(stdin')].message_type = [form |-> "str", tag |-> "Stop"]
       /\ (~is_running /\ mpc # "init") => ~is_running'
       /\ hpc' # hpc => (is_running' = is_running \/ mpc' # mpc)]_vars

\* the flag was set by the load, a Status request was answered with it set,
\* and a Stop has cleared it
C26_Witness ==
    /\ ~is_running
    /\ Len(stdin) = 2
    /\ IsStatus(1) /\ Replies(1) # {}
    /\ IsKind(2, "Stop")
    /\ mpc = "await"

(* C27: only the dispatch path touches the behavior object: a step that     *)
(* writes a heartbeat, and every step of the heartbeat task, leaves the     *)
(* behavior object, the invocations made on it and the run flag as they     *)
(* were; and at most one invocation is in progress at any time, that of     *)
(* the request being handled.                                               *)
Pending == {k \in 1..Len(calls) : calls[k].state = "pending"}

C27_AgentTouchedByDispatchOnly ==
    /\ [][(Heartbeats(out') # Heartbeats(out) \/ (hpc' # hpc /\ mpc' = mpc))
            => /\ agent' = agent
               /\ calls' = calls
               /\ is_running' = is_running]_vars
    /\ [](/\ Cardinality(Pending) <= 1
           /\ Pending \subseteq {Len(calls)}
           /\ Pending # {} <=> mpc \in {"call", "await"}
           /\ \A k \in Pending : calls[k].src = Len(stdin))

\* a heartbeat was written while the trigger handler, the one invocation in
\* progress, was suspended
C27_Witness ==
    /\ mpc = "await" /\ stage = "trigger"
    /\ Cardinality(Pending) = 1
    /\ \E j \in Heartbeats(out) : cause[j] = [idx |-> Len(stdin), at |-> "await"]

(* C28: loading takes one behavior object by a fixed precedence: an Agent   *)
(* class of the module is instantiated if the module has one; otherwise     *)
(* create_agent() is called if the module has it; otherwise the module      *)
(* itself is the behavior object; nothing else of the module is called,     *)
(* and the run flag is set only when the one that was taken was obtained.   *)
ModuleLoaded == "unset" \notin DOMAIN agent_module

HasAttr(m, name) == m[name] # [absent |-> TRUE]

C28_LoadPrecedence ==
    /\ is_running => (ModuleLoaded /\ "unset" \notin DOMAIN agent)
    /\ ModuleLoaded =>
           LET m == agent_module
               first == IF HasAttr(m, "Agent") THEN "Agent"
                        ELSE IF HasAttr(m, "create_agent") THEN "create_agent"
                        ELSE "self"
           IN /\ m.called = IF first = "self" THEN <<>> ELSE <<first>>
              /\ IF m[first] = [raises |-> TRUE]
                 THEN mpc = "exit1" /\ ~is_running /\ "unset" \in DOMAIN agent
                 ELSE agent = m[first] /\ mpc # "exit1"

\* a module with both the class and the factory was loaded, and a request
\* was answered by the object the class gave
C28_Witness ==
    /\ ModuleLoaded
    /\ HasAttr(agent_module, "Agent") /\ HasAttr(agent_module, "create_agent")
    /\ agent = agent_module.Agent
    /\ agent # agent_module.create_agent
    /\ completed # {}

====
